---- MODULE Spec2Model ----
(***************************************************************************)
(* Lead contact lifecycle and retry engine of geniumed.ai:                 *)
(*   - POST /lead/submit (routes/lead.js and routes/doctors.js)            *)
(*   - POST /lead/:id/retry (routes/doctors.js)                            *)
(*   - POST /retell/webhook (routes/retell.js, latest revision)            *)
(*   - POST /fn/schedule-call (routes/functions.js)                        *)
(*   - the two cron jobs of scheduler.js                                   *)
(*   - POST /twilio/whatsapp/webhook (routes/twilio.js)                    *)
(* The store (tables leads and call_attempts) is the shared state.  Time   *)
(* is counted in minutes since Sunday 00:00 of the week the model starts   *)
(* in.  Both crons are split at their awaits on the gateways and on the   *)
(* store, so that request handlers interleave with them.  No code          *)
(* reads the value of ended_at, only whether it is set: the model keeps    *)
(* one stamp for it.  SpecSched applies the Retry Scheduler                 *)
(* (computeNextRetry) alone to every input tried; SpecHook runs the webhook *)
(* route with its signature check, its error paths and its HTTP answer;    *)
(* SpecBatch runs both crons and the inbound whatsapp messages on a store  *)
(* that holds several leads.                                               *)
(***************************************************************************)
EXTENDS Integers, Sequences, FiniteSets, TLC

\* ---------------------------------------------------------------- bounds
NumLeads == 1
MaxCalls == 3
RaceMaxCalls == 4
HookCalls == 2
BatchLeads == 3
MaxElapsed == 120
TimeStep == 60
RandomGrain == 22
SchedBase == 10080
SchedStep == 30
SchedSlots == 336

\* -------------------------------------------------------- program constants
Null == -1
EndedStamp == 0
StartTime == 1860
DefaultMaxAttempts == 3
WebhookAttemptCap == 3
MinGapHours == 2
RandomSpan == 11
SlotLeadMinutes == 120
AppointmentGapMinutes == 120
OpeningHour == 8
ClosingHour == 20
VoicemailBaseMinutes == 15
RetryFailedBackoff == 30
CallFailedBackoff == 15
AssignmentFailedBackoff == 30

LeadIds == 1..NumLeads
CallIds == 1..RaceMaxCalls
UnknownCall == 0
RandomMinutes == {0, 10}
WhenOffsets == {0 - 60, 60}

RetryPending == {"no_answer", "reschedule", "call_failed"}

VARIABLES now, leads, attempts, nextCallId,
          sweepPc, sweepQueue, sweepNextNo, sweepCallId, voiceClosed,
          response, sched, waPc, waQueue, waReply, profile

vars == <<now, leads, attempts, nextCallId,
          sweepPc, sweepQueue, sweepNextNo, sweepCallId, voiceClosed,
          response, sched, waPc, waQueue, waReply, profile>>
sweepVars == <<sweepPc, sweepQueue, sweepNextNo, sweepCallId>>
\* the whatsapp cron's position and the leads it still has to prompt
waVars == <<waPc, waQueue>>
\* the answer to the last webhook request, the Retry Scheduler's call frame,
\* the whatsapp cron, the reply to the last inbound whatsapp message, and the
\* business owner's users row with the answer to the last profile update
ioVars == <<response, sched, waVars, waReply, profile>>

\* ------------------------------------------------------------- calendar
DayOf(t) == (t \div 1440) % 7
HourOf(t) == (t \div 60) % 24

\* the gate opening one hour early
isWithinBusinessHoursFromSeven(t) ==
  /\ DayOf(t) >= 1 /\ DayOf(t) <= 6
  /\ HourOf(t) >= 7 /\ HourOf(t) < 20

isWithinBusinessHours(t) ==
  /\ DayOf(t) >= 1 /\ DayOf(t) <= 6
  /\ HourOf(t) >= 8 /\ HourOf(t) < 20

\* ---------------------------------------------------------------- store
AbsentLead == [status |-> "absent", next_retry_at |-> Null,
               preferred_channel |-> "call", assigned |-> FALSE,
               max_attempts |-> DefaultMaxAttempts]

AttemptsOf(l) == {a \in attempts : a.lead = l}

MaxOf(S) == CHOOSE x \in S : \A y \in S : y <= x

\* highest attempt_no of the lead, or 0 when it has none
LastAttemptNo(l) ==
  IF AttemptsOf(l) = {} THEN 0
  ELSE MaxOf({a.attempt_no : a \in AttemptsOf(l)})

maxAttemptNo(l) == IF LastAttemptNo(l) = 0 THEN 1 ELSE LastAttemptNo(l)

findAttemptByCallId(c) == {a \in attempts : a.call_id = c}

isLeadAlreadyBeingProcessed(l) ==
  \E a \in AttemptsOf(l) : a.outcome = "initiated" /\ a.ended_at = Null

canRetryNow(l) ==
  \/ AttemptsOf(l) = {}
  \/ now - MaxOf({a.started_at : a \in AttemptsOf(l)}) >= MinGapHours * 60

NewAttempt(l, n, c, oc) ==
  [lead |-> l, attempt_no |-> n, call_id |-> c, started_at |-> now,
   ended_at |-> Null, outcome |-> oc, analysis |-> FALSE]

\* ------------------------------------------------------ outcome classifier
\* an event carries call.disconnection_reason and call.summary.result
Voicemail == [reason |-> "voicemail_reached", summary |-> ""]
Busy == [reason |-> "dial_busy", summary |-> ""]
Mismatch == [reason |-> "user_hangup", summary |-> "mismatch name"]
Talked == [reason |-> "user_hangup", summary |-> ""]
\* an event with no outcome, disconnection_reason, call_status or summary
Silent == [reason |-> "", summary |-> ""]
LifecyclePayloads == {Voicemail, Busy, Mismatch, Talked}

\* the fields joined into outcomeRaw, empty ones filtered out
outcomeRaw(p) == {p.reason, p.summary} \ {""}

NoHumanRe(s) == s \in {"voicemail_reached", "dial_busy"}
DivergentRe(s) == s \in {"mismatch name"}

inVoicemail(p) == p.reason = "voicemail_reached"
NO_HUMAN(p) == inVoicemail(p) \/ \E s \in outcomeRaw(p) : NoHumanRe(s)
DIVERGENT(p) == \E s \in outcomeRaw(p) : DivergentRe(s)

AttemptOutcome(p) == IF p.reason # "" THEN p.reason ELSE "ended"

\* voicemail branch of computeNextRetry; r is floor(Math.random() * 11)
computeNextRetryVoicemail(t, r) == t + VoicemailBaseMinutes + r

\* ------------------------------------------------------- Retry Scheduler
\* Math.random() yields u / RandomGrain for a draw u in 0..RandomGrain-1
RandomDraws == 0..(RandomGrain - 1)
\* Math.ceil in place of Math.floor
RandomOffsetCeil(u) == (u * RandomSpan + RandomGrain - 1) \div RandomGrain
RandomOffset(u) == (u * RandomSpan) \div RandomGrain

\* Date arithmetic, in minutes of the server's local time
StartOfDay(t) == t - (t % 1440)
setHours8(t) == StartOfDay(t) + OpeningHour * 60
AddDays(t, n) == t + n * 1440
SkipSundays(t) == IF DayOf(t) = 0 THEN AddDays(t, 1) ELSE t
Abs(x) == IF x < 0 THEN 0 - x ELSE x

calculateNextSlot(fromTime) ==
  LET d == fromTime + SlotLeadMinutes
  IN IF HourOf(d) >= OpeningHour /\ HourOf(d) < ClosingHour
     THEN IF DayOf(d) >= 1 /\ DayOf(d) <= 6
          THEN d
          ELSE setHours8(AddDays(d, 8 - DayOf(d)))
     ELSE setHours8(SkipSundays(IF HourOf(d) >= ClosingHour THEN AddDays(d, 1) ELSE d))

\* the appointments query: the earliest start_at that is not before t
appointmentTime(appts, t) ==
  IF {a \in appts : a >= t} = {} THEN Null
  ELSE CHOOSE a \in appts : a >= t /\ \A b \in appts : b >= t => a <= b

\* the adjustment without its loop over Sundays
adjustForAppointmentNoSkip(slot, appt) ==
  IF appt # Null /\ Abs(appt - slot) < AppointmentGapMinutes
  THEN setHours8(AddDays(slot, 1))
  ELSE slot

\* the adjustment moving the slot by one hour on the same day
adjustForAppointmentNextHour(slot, appt) ==
  IF appt # Null /\ Abs(appt - slot) < AppointmentGapMinutes
  THEN slot + 60
  ELSE slot

\* the appointment adjustment applied to a candidate slot
adjustForAppointment(slot, appt) ==
  IF appt # Null /\ Abs(appt - slot) < AppointmentGapMinutes
  THEN setHours8(SkipSundays(AddDays(slot, 1)))
  ELSE slot

computeNextRetry(t, voicemail, u, appts) ==
  IF voicemail
  THEN computeNextRetryVoicemail(t, RandomOffset(u))
  ELSE adjustForAppointment(calculateNextSlot(t), appointmentTime(appts, t))

\* invocation times, appointment tables and lead timezones tried
SchedTimes == {SchedBase + k * SchedStep : k \in 0..(SchedSlots - 1)}
ApptOffsets == {0 - 60, 45, 165, 240, 825}
TzOffsets == {0, 0 - 180}
LeadLocal(t, tz) == t + tz

SchedIdle == [pc |-> "idle", at |-> 0, voicemail |-> FALSE, u |-> 0,
              appts |-> {}, tz |-> 0, result |-> Null]

\* the users row before any signup
ProfileIdle ==
  [user |-> [name |-> "", specialty |-> "", social_proof_enabled |-> "false",
             social_proof_text |-> "", default_agent_id |-> ""],
   answer |-> "idle"]

Init ==
  /\ now = StartTime
  /\ leads = [l \in LeadIds |-> AbsentLead]
  /\ attempts = {}
  /\ nextCallId = 1
  /\ sweepPc = "idle"
  /\ sweepQueue = <<>>
  /\ sweepNextNo = 0
  /\ sweepCallId = 0
  /\ voiceClosed = {}
  /\ response = "idle"
  /\ sched = SchedIdle
  /\ waPc = "idle"
  /\ waQueue = <<>>
  /\ waReply = "none"
  /\ profile = ProfileIdle

\* the clock advances between handlers; a retry pass lasts less than a step
Tick ==
  /\ sweepPc = "idle"
  /\ waPc = "idle"
  /\ now + TimeStep <= StartTime + MaxElapsed
  /\ now' = now + TimeStep
  /\ UNCHANGED <<leads, attempts, nextCallId, sweepVars, voiceClosed>>
  /\ UNCHANGED ioVars


\* ------------------------------------------------------- lead submission
\* ids are issued by the store: the next free one
FreshLead(l) ==
  /\ leads[l].status = "absent"
  /\ \A k \in LeadIds : k < l => leads[k].status # "absent"

\* routes/lead.js: insert with status 'calling', dial, record attempt 1
SubmitLead(l, cap) ==
  /\ FreshLead(l)
  /\ \/ /\ nextCallId <= cap
        /\ leads' = [leads EXCEPT ![l] = [AbsentLead EXCEPT !.status = "calling"]]
        /\ attempts' = attempts \cup {NewAttempt(l, 1, nextCallId, "initiated")}
        /\ nextCallId' = nextCallId + 1
     \/ /\ leads' = [leads EXCEPT ![l] = [AbsentLead EXCEPT !.status = "new"]]
        /\ UNCHANGED <<attempts, nextCallId>>
  /\ UNCHANGED <<now, sweepVars, voiceClosed>>
  /\ UNCHANGED ioVars

\* routes/doctors.js: insert with status 'new', assign, dial, record attempt 1
SubmitAgentLead(l, cap) ==
  /\ FreshLead(l)
  /\ \/ /\ leads' = [leads EXCEPT ![l] =
                       [AbsentLead EXCEPT !.status = "assignment_failed",
                                          !.next_retry_at = now + AssignmentFailedBackoff]]
        /\ UNCHANGED <<attempts, nextCallId>>
     \/ /\ nextCallId <= cap
        /\ leads' = [leads EXCEPT ![l] =
                       [AbsentLead EXCEPT !.status = "new", !.assigned = TRUE]]
        /\ attempts' = attempts \cup {NewAttempt(l, 1, nextCallId, "none")}
        /\ nextCallId' = nextCallId + 1
     \/ /\ leads' = [leads EXCEPT ![l] =
                       [AbsentLead EXCEPT !.status = "call_failed", !.assigned = TRUE,
                                          !.next_retry_at = now + CallFailedBackoff]]
        /\ UNCHANGED <<attempts, nextCallId>>
  /\ UNCHANGED <<now, sweepVars, voiceClosed>>
  /\ UNCHANGED ioVars

\* ---------------------------------------------------------- manual retry
\* routes/doctors.js POST /lead/:id/retry
ManualRetry(l, cap) ==
  /\ leads[l].status # "absent"
  /\ LastAttemptNo(l) + 1 <= leads[l].max_attempts
  /\ \/ /\ nextCallId <= cap
        /\ leads' = [leads EXCEPT ![l].assigned = TRUE,
                                  ![l].status = "calling",
                                  ![l].next_retry_at = Null]
        /\ attempts' = attempts \cup
                         {NewAttempt(l, LastAttemptNo(l) + 1, nextCallId, "none")}
        /\ nextCallId' = nextCallId + 1
     \/ /\ leads' = [leads EXCEPT ![l].assigned = TRUE]
        /\ UNCHANGED <<attempts, nextCallId>>
  /\ UNCHANGED <<now, sweepVars, voiceClosed>>
  /\ UNCHANGED ioVars

\* ------------------------------------------------------------ agent tools
\* POST /fn/schedule-call
ScheduleCall(l, when) ==
  /\ leads[l].status # "absent"
  /\ leads' = [leads EXCEPT ![l].status = "reschedule", ![l].next_retry_at = when]
  /\ UNCHANGED <<now, attempts, nextCallId, sweepVars, voiceClosed>>
  /\ UNCHANGED ioVars

\* ---------------------------------------------------------------- webhook
\* call_started: the attempt of call c gets its started_at stamped
StampStarted(c) ==
  {IF a.call_id = c THEN [a EXCEPT !.started_at = now] ELSE a : a \in attempts}

\* the analysis update closing the attempt as well
StoreAnalysisAndEnd(c) ==
  {IF a.call_id = c THEN [a EXCEPT !.analysis = TRUE, !.ended_at = EndedStamp] ELSE a
     : a \in attempts}

\* call_analyzed: the attempt of call c gets transcript and call_analysis
StoreAnalysis(c) ==
  {IF a.call_id = c THEN [a EXCEPT !.analysis = TRUE] ELSE a : a \in attempts}

\* call_ended: the attempt of call c gets ended_at and outcome written
StampEnded(c, p) ==
  {IF a.call_id = c
   THEN [a EXCEPT !.ended_at = EndedStamp, !.outcome = AttemptOutcome(p)]
   ELSE a : a \in attempts}

WebhookCallStarted(c) ==
  /\ findAttemptByCallId(c) # {}
  /\ attempts' = StampStarted(c)
  /\ UNCHANGED <<now, leads, nextCallId, sweepVars, voiceClosed>>
  /\ UNCHANGED ioVars

\* an event without any outcome text taken as a call nobody answered
EndedLeadSilentUnanswered(ld, l, p, r) ==
  IF inVoicemail(p)
  THEN IF maxAttemptNo(l) + 1 <= WebhookAttemptCap
       THEN [ld EXCEPT !.status = "no_answer",
                       !.next_retry_at = computeNextRetryVoicemail(now, r)]
       ELSE [ld EXCEPT !.status = "whatsapp_outreach",
                       !.preferred_channel = "whatsapp",
                       !.next_retry_at = Null]
  ELSE IF DIVERGENT(p)
       THEN [ld EXCEPT !.status = "divergent"]
       ELSE IF outcomeRaw(p) = {}
            THEN [ld EXCEPT !.status = "no_answer",
                            !.next_retry_at = computeNextRetryVoicemail(now, r)]
            ELSE [ld EXCEPT !.status = "qualified"]

\* the lead update of the call_ended branch; r is the draw of Math.random
EndedLead(ld, l, p, r) ==
  IF inVoicemail(p)
  THEN IF maxAttemptNo(l) + 1 <= WebhookAttemptCap
       THEN [ld EXCEPT !.status = "no_answer",
                       !.next_retry_at = computeNextRetryVoicemail(now, r)]
       ELSE [ld EXCEPT !.status = "whatsapp_outreach",
                       !.preferred_channel = "whatsapp",
                       !.next_retry_at = Null]
  ELSE IF DIVERGENT(p)
       THEN [ld EXCEPT !.status = "divergent"]
       ELSE [ld EXCEPT !.status = "qualified"]

WebhookCallEnded(c, p) ==
  /\ findAttemptByCallId(c) # {}
  /\ LET a == CHOOSE x \in attempts : x.call_id = c
         l == a.lead
     IN /\ attempts' = StampEnded(c, p)
        /\ \E r \in (IF inVoicemail(p) THEN RandomMinutes ELSE {0}) :
             leads' = [leads EXCEPT ![l] = EndedLead(leads[l], l, p, r)]
        /\ voiceClosed' = IF NO_HUMAN(p) THEN voiceClosed ELSE voiceClosed \cup {l}
  /\ UNCHANGED <<now, nextCallId, sweepVars>>
  /\ UNCHANGED ioVars

\* a signed event whose call handle matches no attempt, or an unsigned one
WebhookIgnored(c, signed) ==
  /\ c \in UnknownCall..(nextCallId - 1)
  /\ ~signed \/ findAttemptByCallId(c) = {}
  /\ UNCHANGED vars

\* -------------------------------------------------------------- retry cron
Perms(S) ==
  {q \in [1..Cardinality(S) -> S] : \A i, j \in 1..Cardinality(S) : i # j => q[i] # q[j]}

DueLeads ==
  {l \in DOMAIN leads : /\ leads[l].next_retry_at # Null
                   /\ leads[l].next_retry_at <= now
                   /\ leads[l].status \in RetryPending
                   /\ leads[l].assigned}

SweepTick ==
  /\ sweepPc = "idle"
  /\ IF isWithinBusinessHours(now) /\ DueLeads # {}
     THEN /\ sweepQueue' \in Perms(DueLeads)
          /\ sweepPc' = "loop"
     ELSE UNCHANGED <<sweepPc, sweepQueue>>
  /\ UNCHANGED <<now, leads, attempts, nextCallId, sweepNextNo, sweepCallId, voiceClosed>>
  /\ UNCHANGED ioVars

\* the pass stops at the first lead it has handled
SweepAdvanceStops ==
  /\ sweepQueue' = <<>>
  /\ sweepPc' = "idle"
  /\ sweepNextNo' = 0
  /\ sweepCallId' = 0

\* the loop moves on to the next selected lead, or the pass ends
SweepAdvance ==
  /\ sweepQueue' = Tail(sweepQueue)
  /\ sweepPc' = IF Len(sweepQueue) > 1 THEN "loop" ELSE "idle"
  /\ sweepNextNo' = 0
  /\ sweepCallId' = 0

SweepLead == Head(sweepQueue)

\* the loop body with the gap check ahead of the max-attempts check
SweepProcessGapFirst(cap) ==
  /\ sweepPc = "loop"
  /\ LET l == SweepLead
         nextAttemptNo == LastAttemptNo(l) + 1
     IN IF isLeadAlreadyBeingProcessed(l)
        THEN /\ SweepAdvance
             /\ UNCHANGED <<leads, nextCallId>>
        ELSE IF ~canRetryNow(l)
        THEN /\ SweepAdvance
             /\ UNCHANGED <<leads, nextCallId>>
        ELSE IF nextAttemptNo > leads[l].max_attempts
        THEN /\ leads' = [leads EXCEPT ![l].status = "whatsapp_outreach",
                                       ![l].preferred_channel = "whatsapp",
                                       ![l].next_retry_at = Null]
             /\ SweepAdvance
             /\ UNCHANGED nextCallId
        ELSE \/ /\ nextCallId <= cap
                /\ sweepPc' = "dispatched"
                /\ sweepNextNo' = nextAttemptNo
                /\ sweepCallId' = nextCallId
                /\ nextCallId' = nextCallId + 1
                /\ UNCHANGED <<leads, sweepQueue>>
             \/ /\ leads' = [leads EXCEPT ![l].status = "retry_failed",
                                          ![l].next_retry_at = now + RetryFailedBackoff]
                /\ SweepAdvance
                /\ UNCHANGED nextCallId
  /\ UNCHANGED <<now, attempts, voiceClosed>>
  /\ UNCHANGED ioVars

\* loop body up to the await on makeOutboundCall
SweepProcess(cap) ==
  /\ sweepPc = "loop"
  /\ LET l == SweepLead
         nextAttemptNo == LastAttemptNo(l) + 1
     IN IF isLeadAlreadyBeingProcessed(l)
        THEN /\ SweepAdvance
             /\ UNCHANGED <<leads, nextCallId>>
        ELSE IF nextAttemptNo > leads[l].max_attempts
        THEN /\ leads' = [leads EXCEPT ![l].status = "whatsapp_outreach",
                                       ![l].preferred_channel = "whatsapp",
                                       ![l].next_retry_at = Null]
             /\ SweepAdvance
             /\ UNCHANGED nextCallId
        ELSE IF ~canRetryNow(l)
        THEN /\ SweepAdvance
             /\ UNCHANGED <<leads, nextCallId>>
        ELSE \/ /\ nextCallId <= cap
                /\ sweepPc' = "dispatched"
                /\ sweepNextNo' = nextAttemptNo
                /\ sweepCallId' = nextCallId
                /\ nextCallId' = nextCallId + 1
                /\ UNCHANGED <<leads, sweepQueue>>
             \/ /\ leads' = [leads EXCEPT ![l].status = "retry_failed",
                                          ![l].next_retry_at = now + RetryFailedBackoff]
                /\ SweepAdvance
                /\ UNCHANGED nextCallId
  /\ UNCHANGED <<now, attempts, voiceClosed>>
  /\ UNCHANGED ioVars

\* the call_attempts insert after the gateway returned
SweepInsert ==
  /\ sweepPc = "dispatched"
  /\ attempts' = attempts \cup
                   {NewAttempt(SweepLead, sweepNextNo, sweepCallId, "initiated")}
  /\ sweepPc' = "inserted"
  /\ UNCHANGED <<now, leads, nextCallId, sweepQueue, sweepNextNo, sweepCallId, voiceClosed>>
  /\ UNCHANGED ioVars

\* the unconditional status write that ends the loop body
SweepStatus ==
  /\ sweepPc = "inserted"
  /\ leads' = [leads EXCEPT ![SweepLead].status = "calling",
                            ![SweepLead].next_retry_at = Null]
  /\ SweepAdvance
  /\ UNCHANGED <<now, attempts, nextCallId, voiceClosed>>
  /\ UNCHANGED ioVars

\* ----------------------------------------------------------- whatsapp cron
OutreachLeads == {l \in DOMAIN leads : leads[l].status = "whatsapp_outreach"}

\* the selection query of the hourly pass
WhatsappTick ==
  /\ waPc = "idle"
  /\ OutreachLeads # {}
  /\ waQueue' \in Perms(OutreachLeads)
  /\ waPc' = "loop"
  /\ UNCHANGED <<now, leads, attempts, nextCallId, sweepVars, voiceClosed,
                 response, sched, waReply, profile>>

\* the loop moves on to the next selected lead, or the pass ends
WhatsappAdvance ==
  /\ waQueue' = Tail(waQueue)
  /\ waPc' = IF Len(waQueue) > 1 THEN "loop" ELSE "idle"

WhatsappLead == Head(waQueue)

\* twilio.messages.create for the head of the queue: it resolves, or it
\* throws and the catch logs the error
WhatsappSend ==
  /\ waPc = "loop"
  /\ \/ /\ waPc' = "sent"
        /\ UNCHANGED waQueue
     \/ WhatsappAdvance
  /\ UNCHANGED <<now, leads, attempts, nextCallId, sweepVars, voiceClosed,
                 response, sched, waReply, profile>>

\* the status write after the send, keyed by the lead id alone
WhatsappUpdate ==
  /\ waPc = "sent"
  /\ leads' = [leads EXCEPT ![WhatsappLead].status = "waiting_preference"]
  /\ WhatsappAdvance
  /\ UNCHANGED <<now, attempts, nextCallId, sweepVars, voiceClosed,
                 response, sched, waReply, profile>>

Next ==
  \/ Tick
  \/ \E l \in LeadIds : SubmitLead(l, MaxCalls)
  \/ \E l \in LeadIds : SubmitAgentLead(l, MaxCalls)
  \/ \E l \in LeadIds : ManualRetry(l, MaxCalls)
  \/ \E l \in LeadIds, d \in WhenOffsets : ScheduleCall(l, now + d)
  \/ \E c \in CallIds : WebhookCallStarted(c)
  \/ \E c \in CallIds, p \in LifecyclePayloads : WebhookCallEnded(c, p)
  \/ \E c \in UnknownCall..MaxCalls, signed \in BOOLEAN : WebhookIgnored(c, signed)
  \/ SweepTick
  \/ SweepProcess(MaxCalls)
  \/ SweepInsert
  \/ SweepStatus
  \/ WhatsappTick
  \/ WhatsappSend
  \/ WhatsappUpdate

Spec == Init /\ [][Next]_vars

\* The agent-assigned lead path with the voicemail outcome only, and one more
\* call than Spec allows: the behaviours in which the retry cron and the manual
\* retry endpoint act on the same lead.
NextRace ==
  \/ Tick
  \/ \E l \in LeadIds : SubmitAgentLead(l, RaceMaxCalls)
  \/ \E l \in LeadIds : ManualRetry(l, RaceMaxCalls)
  \/ \E c \in CallIds : WebhookCallEnded(c, Voicemail)
  \/ SweepTick
  \/ SweepProcess(RaceMaxCalls)
  \/ SweepInsert
  \/ SweepStatus

SpecRace == Init /\ [][NextRace]_vars

\* The automatic voice loop alone: submission, call-ended events and the retry
\* cron, with no operator retry and no agent tool acting on the lead.
NextLoop ==
  \/ Tick
  \/ \E l \in LeadIds : SubmitAgentLead(l, MaxCalls)
  \/ \E c \in CallIds, p \in LifecyclePayloads : WebhookCallEnded(c, p)
  \/ SweepTick
  \/ SweepProcess(MaxCalls)
  \/ SweepInsert
  \/ SweepStatus

SpecLoop == Init /\ [][NextLoop]_vars

\* The voice loop and the prompt pass under the scheduling the deployment
\* gives them: node-cron fires both passes on every interval and each pass runs
\* to its end, the clock advances, the provider delivers the call_ended event
\* of every call it placed, and the two gateways (the call provider for the
\* retry pass, the messaging provider for the prompt pass) do not fail forever.
\* The provider delivers each call_ended event once; the operator may retry.
SweepDials == SweepProcess(MaxCalls) /\ sweepPc' = "dispatched"

WhatsappDelivers == WhatsappSend /\ waPc' = "sent"

FirstCallEnded(c) ==
  /\ \E a \in findAttemptByCallId(c) : a.ended_at = Null
  /\ \E p \in LifecyclePayloads : WebhookCallEnded(c, p)

NextLive ==
  \/ Tick
  \/ \E l \in LeadIds : SubmitAgentLead(l, MaxCalls)
  \/ \E l \in LeadIds : ManualRetry(l, MaxCalls)
  \/ \E c \in CallIds : FirstCallEnded(c)
  \/ SweepTick
  \/ SweepProcess(MaxCalls)
  \/ SweepInsert
  \/ SweepStatus
  \/ WhatsappTick
  \/ WhatsappSend
  \/ WhatsappUpdate

Fairness ==
  /\ SF_vars(Tick)
  /\ WF_vars(SweepTick)
  /\ WF_vars(SweepProcess(MaxCalls))
  /\ SF_vars(SweepDials)
  /\ WF_vars(SweepInsert)
  /\ WF_vars(SweepStatus)
  /\ WF_vars(WhatsappTick)
  /\ WF_vars(WhatsappSend)
  /\ SF_vars(WhatsappDelivers)
  /\ WF_vars(WhatsappUpdate)
  /\ \A c \in CallIds : WF_vars(FirstCallEnded(c))

SpecLive == Init /\ [][NextLive]_vars /\ Fairness

\* ------------------------------------------------ inbound whatsapp message
\* POST /twilio/whatsapp/webhook for a text message from lead l: the handler
\* picks its reply from the message text and touches no table
Messages == {"ligar", "whatsapp", "oi"}
VoiceRe(m) == m \in {"ligar"}
AsyncRe(m) == m \in {"whatsapp"}

TwilioInbound(l, m) ==
  /\ leads[l].status # "absent"
  /\ waReply' = IF VoiceRe(m) THEN "will_call"
                ELSE IF AsyncRe(m) THEN "stay_here" ELSE "ask_again"
  /\ UNCHANGED <<now, leads, attempts, nextCallId, sweepVars, voiceClosed,
                 response, sched, waVars, profile>>

\* ------------------------------------------------- the two passes on a batch
\* Both crons and the inbound whatsapp messages at Monday 08:00 on a store
\* that holds several leads: each lead
\* either failed its first dispatch an hour before (doctors.js: call_failed,
\* retry time 15 minutes later, no attempt) or went through three voicemail
\* attempts on the days before and waits in whatsapp_outreach.
BatchLeadIds == 1..BatchLeads
BatchCalls == 4 * BatchLeads

FailedLead ==
  [AbsentLead EXCEPT !.status = "call_failed", !.assigned = TRUE,
                     !.next_retry_at = StartTime + CallFailedBackoff]
ExhaustedLead ==
  [AbsentLead EXCEPT !.status = "whatsapp_outreach", !.assigned = TRUE,
                     !.preferred_channel = "whatsapp"]
PastAttempts(l) ==
  {[lead |-> l, attempt_no |-> n, call_id |-> DefaultMaxAttempts * (l - 1) + n,
    started_at |-> StartTime - (DefaultMaxAttempts + 2 - n) * 1440,
    ended_at |-> EndedStamp, outcome |-> "voicemail_reached", analysis |-> FALSE]
     : n \in 1..DefaultMaxAttempts}

InitBatch ==
  /\ now = StartTime + TimeStep
  /\ \E exhausted \in SUBSET BatchLeadIds :
       /\ leads = [l \in BatchLeadIds |->
                     IF l \in exhausted THEN ExhaustedLead ELSE FailedLead]
       /\ attempts = UNION {PastAttempts(l) : l \in exhausted}
  /\ nextCallId = DefaultMaxAttempts * BatchLeads + 1
  /\ sweepPc = "idle"
  /\ sweepQueue = <<>>
  /\ sweepNextNo = 0
  /\ sweepCallId = 0
  /\ voiceClosed = {}
  /\ response = "idle"
  /\ sched = SchedIdle
  /\ waPc = "idle"
  /\ waQueue = <<>>
  /\ waReply = "none"
  /\ profile = ProfileIdle

NextBatch ==
  \/ SweepTick
  \/ SweepProcess(BatchCalls)
  \/ SweepInsert
  \/ SweepStatus
  \/ WhatsappTick
  \/ WhatsappSend
  \/ WhatsappUpdate
  \/ \E l \in BatchLeadIds, m \in Messages : TwilioInbound(l, m)

SpecBatch == InitBatch /\ [][NextBatch]_vars

\* ----------------------------------------------------- the owner's profile
\* PUT /auth/profile on the users row of one business owner.  A body field
\* that the request does not carry is Undefined; "" stands for null.
Undefined == "undefined"
Names == {"Ana", "Bia"}
Specialties == {"clinic", "real_estate"}
Flags == {"true", "false"}
Texts == {"", "proof"}
OwnAgent == "agent_own"
Agents == {"", OwnAgent, "agent_other"}
Tokens == {"none", "bad", "good"}

ProfileBodies ==
  [token : Tokens,
   name : Names \cup {Undefined},
   specialty : Specialties \cup {Undefined},
   social_proof_enabled : Flags \cup {Undefined},
   social_proof_text : Texts \cup {Undefined},
   default_agent_id : Agents \cup {Undefined}]

\* one column after the update: the supplied value, or the stored one
Supplied(field, stored) == IF field # Undefined THEN field ELSE stored

UpdateProfile(b) ==
  /\ profile' =
       IF b.token = "none"
       THEN [profile EXCEPT !.answer = "401"]
       ELSE IF b.token = "bad"
       THEN [profile EXCEPT !.answer = "500"]
       ELSE IF b.default_agent_id \notin {Undefined, "", OwnAgent}
       THEN [profile EXCEPT !.answer = "400"]
       ELSE IF /\ b.name = Undefined
               /\ b.specialty = Undefined
               /\ b.social_proof_enabled = Undefined
               /\ b.social_proof_text = Undefined
               /\ b.default_agent_id = Undefined
       THEN [profile EXCEPT !.answer = "400"]
       ELSE [user |->
               [name |-> Supplied(b.name, profile.user.name),
                specialty |-> Supplied(b.specialty, profile.user.specialty),
                social_proof_enabled |->
                  Supplied(b.social_proof_enabled, profile.user.social_proof_enabled),
                social_proof_text |->
                  Supplied(b.social_proof_text, profile.user.social_proof_text),
                default_agent_id |->
                  Supplied(b.default_agent_id, profile.user.default_agent_id)],
             answer |-> "200"]
  /\ UNCHANGED <<now, leads, attempts, nextCallId, sweepVars, voiceClosed,
                 response, sched, waVars, waReply>>

\* the row as POST /auth/signup leaves it
InitProfile ==
  /\ now = StartTime
  /\ leads = [l \in LeadIds |-> AbsentLead]
  /\ attempts = {}
  /\ nextCallId = 1
  /\ sweepPc = "idle"
  /\ sweepQueue = <<>>
  /\ sweepNextNo = 0
  /\ sweepCallId = 0
  /\ voiceClosed = {}
  /\ response = "idle"
  /\ sched = SchedIdle
  /\ waPc = "idle"
  /\ waQueue = <<>>
  /\ waReply = "none"
  /\ \E n \in Names, sp \in Specialties \cup {""} :
       profile = [user |-> [name |-> n, specialty |-> sp,
                            social_proof_enabled |-> "false",
                            social_proof_text |-> "",
                            default_agent_id |-> ""],
                  answer |-> "idle"]

NextProfile == \E b \in ProfileBodies : UpdateProfile(b)

SpecProfile == InitProfile /\ [][NextProfile]_vars

\* ------------------------------------------------ the Retry Scheduler alone
\* computeNextRetry called once, at any of the invocation times, on either
\* path, with any draw of the random source, appointment table and timezone
InitSched ==
  /\ now = StartTime
  /\ leads = [l \in LeadIds |-> AbsentLead]
  /\ attempts = {}
  /\ nextCallId = 1
  /\ sweepPc = "idle"
  /\ sweepQueue = <<>>
  /\ sweepNextNo = 0
  /\ sweepCallId = 0
  /\ voiceClosed = {}
  /\ response = "idle"
  /\ waPc = "idle"
  /\ waQueue = <<>>
  /\ waReply = "none"
  /\ profile = ProfileIdle
  /\ \E t \in SchedTimes, vm \in BOOLEAN, u \in RandomDraws,
        offs \in SUBSET ApptOffsets, tz \in TzOffsets :
       /\ IF vm THEN offs = {} /\ tz = 0 ELSE u = 0
       /\ sched = [pc |-> "called", at |-> t, voicemail |-> vm, u |-> u,
                   appts |-> {t + o : o \in offs}, tz |-> tz, result |-> Null]

SchedReturn ==
  /\ sched.pc = "called"
  /\ sched' = [sched EXCEPT
                 !.pc = "returned",
                 !.result = computeNextRetry(sched.at, sched.voicemail,
                                             sched.u, sched.appts)]
  /\ UNCHANGED <<now, leads, attempts, nextCallId, sweepVars, voiceClosed, response, waVars, waReply, profile>>

NextSched == SchedReturn

SpecSched == InitSched /\ [][NextSched]_vars

\* ------------------------------------------ the webhook route with its answer
\* POST /retell/webhook as a whole: signature check, lookup, the branch of the
\* event type, and the HTTP answer.  response is "none" when the handler
\* returned without answering.
EventTypes == {"call_started", "call_ended", "call_analyzed", "other"}

\* where the request fails inside the try block: the attempt lookup errors, the
\* lead load errors, or call.call_cost is missing from a call_analyzed event
Faults == {"none", "lookup", "lead_load", "payload"}

BusyMismatch == [reason |-> "dial_busy", summary |-> "mismatch name"]
VoicemailMismatch == [reason |-> "voicemail_reached", summary |-> "mismatch name"]
HookPayloads == LifecyclePayloads \cup {BusyMismatch, VoicemailMismatch, Silent}

\* the try block and its catch
HandleEvent(c, type, p, fault) ==
  IF fault = "lookup"
  THEN /\ response' = "500"
       /\ UNCHANGED <<leads, attempts, voiceClosed>>
  ELSE IF findAttemptByCallId(c) = {}
  THEN /\ response' = "200"
       /\ UNCHANGED <<leads, attempts, voiceClosed>>
  ELSE IF type = "call_started"
  THEN /\ attempts' = StampStarted(c)
       /\ response' = "200"
       /\ UNCHANGED <<leads, voiceClosed>>
  ELSE IF type = "call_ended"
  THEN /\ attempts' = StampEnded(c, p)
       /\ IF fault = "lead_load"
          THEN /\ response' = "500"
               /\ UNCHANGED <<leads, voiceClosed>>
          ELSE LET l == (CHOOSE x \in attempts : x.call_id = c).lead
               IN /\ \E r \in (IF inVoicemail(p) THEN RandomMinutes ELSE {0}) :
                       leads' = [leads EXCEPT ![l] = EndedLead(leads[l], l, p, r)]
                  /\ voiceClosed' = IF NO_HUMAN(p) THEN voiceClosed
                                    ELSE voiceClosed \cup {l}
                  /\ response' = "200"
  ELSE IF type = "call_analyzed"
  THEN /\ IF fault = "payload"
          THEN /\ response' = "500"
               /\ UNCHANGED attempts
          ELSE /\ attempts' = StoreAnalysis(c)
               /\ response' = "200"
       /\ UNCHANGED <<leads, voiceClosed>>
  ELSE /\ response' = "200"
       /\ UNCHANGED <<leads, attempts, voiceClosed>>

\* the route without its signature check
RetellWebhookUnverified(c, type, p, signed, fault) ==
  /\ HandleEvent(c, type, p, fault)
  /\ UNCHANGED <<now, nextCallId, sweepVars, sched, waVars, waReply, profile>>

RetellWebhook(c, type, p, signed, fault) ==
  /\ IF ~signed
     THEN /\ response' = "none"
          /\ UNCHANGED <<leads, attempts, voiceClosed>>
     ELSE HandleEvent(c, type, p, fault)
  /\ UNCHANGED <<now, nextCallId, sweepVars, sched, waVars, waReply, profile>>

\* the requests tried: the payload matters to call_ended only, the lead load
\* to call_ended only, call.call_cost to call_analyzed only, and nothing
\* after the signature check to an unsigned request
HookRequests ==
  {q \in [c : UnknownCall..HookCalls, type : EventTypes, p : HookPayloads,
          signed : BOOLEAN, fault : Faults] :
     /\ q.type # "call_ended" => q.p = Talked
     /\ q.fault = "lead_load" => q.type = "call_ended"
     /\ q.fault = "payload" => q.type = "call_analyzed"
     /\ ~q.signed => q.fault = "none"}
SignedRequests == {q \in HookRequests : q.signed}
UnsignedRequests == {q \in HookRequests : ~q.signed}

NextHook ==
  \/ \E l \in LeadIds : SubmitLead(l, HookCalls)
  \/ \E l \in LeadIds : SubmitAgentLead(l, HookCalls)
  \/ \E l \in LeadIds : ManualRetry(l, HookCalls)
  \/ \E q \in HookRequests : RetellWebhook(q.c, q.type, q.p, q.signed, q.fault)

SpecHook == Init /\ [][NextHook]_vars

\* ------------------------------------------------------------ vocabulary
InFlight(l) == {a \in AttemptsOf(l) : a.ended_at = Null}

\* the call_ended handler runs on event (c, p) in this step
CallEndedStep(c, p) == WebhookCallEnded(c, p)

AttemptOfCall(c) == CHOOSE a \in attempts : a.call_id = c
Known(c) == findAttemptByCallId(c) # {}
AlreadyEnded(c) == Known(c) /\ AttemptOfCall(c).ended_at # Null
FirstEnd(c) == Known(c) /\ AttemptOfCall(c).ended_at = Null

\* the retry cron places a call for lead l in this step
SweepDispatches(l) ==
  /\ sweepPc = "loop"
  /\ sweepPc' = "dispatched"
  /\ SweepLead = l

\* the retry cron runs its loop body on the head of its queue in this step
SweepHandlesLead ==
  /\ sweepPc = "loop"
  /\ sweepPc' # "loop" \/ sweepQueue' # sweepQueue

\* a write that leaves lead l in a retry-pending status
RetryPendingWrite(l) ==
  /\ leads'[l].status \in RetryPending
  /\ \/ leads'[l].status # leads[l].status
     \/ leads'[l].next_retry_at # leads[l].next_retry_at

\* ------------------------------------------------------------------ claims

\* C1: for every lead, the number of call attempts recorded for it never
\* exceeds the lead's max_attempts, whatever the interleaving of submission,
\* webhook events, retry-cron steps and manual retries.
C1_AttemptsWithinMax ==
  \A l \in LeadIds : Cardinality(AttemptsOf(l)) <= leads[l].max_attempts

\* C2: for every lead, the attempt_no values of its attempts are exactly 1..k,
\* with no gap and no repeat.
C2_AttemptNumbersSequential ==
  \A l \in LeadIds :
    /\ {a.attempt_no : a \in AttemptsOf(l)} = 1..LastAttemptNo(l)
    /\ Cardinality(AttemptsOf(l)) = LastAttemptNo(l)

\* C3: every lead has at most one attempt in flight (recorded, ended_at unset).
C3_AtMostOneInFlight ==
  \A l \in LeadIds : Cardinality(InFlight(l)) <= 1

\* C4: a call-ended event for an attempt whose ended_at is already set changes
\* neither the lead (status, next_retry_at, channel preference) nor the attempt.
C4_EndedReplayIsNoOp ==
  [][\A c \in CallIds, p \in LifecyclePayloads :
       (AlreadyEnded(c) /\ CallEndedStep(c, p)) => UNCHANGED <<leads, attempts>>]_vars

\* C5: a lead whose status is not a retry-pending status has next_retry_at null.
C5_RetryTimeOnlyWhilePending ==
  \A l \in LeadIds :
    leads[l].status \notin RetryPending => leads[l].next_retry_at = Null

\* C6: every write that puts a lead into a retry-pending status sets
\* next_retry_at to a non-null instant strictly later than the time of the write.
C6_RetryTimeInFuture ==
  [][\A l \in LeadIds :
       RetryPendingWrite(l) =>
         leads'[l].next_retry_at # Null /\ leads'[l].next_retry_at > now]_vars

\* C7: a first call-ended event for a lead in 'calling', classified
\* no-human-reached for any reason while attempts remain, puts the lead into
\* retry-pending with next_retry_at set; it is never marked qualified.
C7_NoHumanRetries ==
  [][\A c \in CallIds, p \in LifecyclePayloads :
       (/\ FirstEnd(c)
        /\ CallEndedStep(c, p)
        /\ NO_HUMAN(p)
        /\ leads[AttemptOfCall(c).lead].status = "calling"
        /\ LastAttemptNo(AttemptOfCall(c).lead) + 1
             <= leads[AttemptOfCall(c).lead].max_attempts)
       => /\ leads'[AttemptOfCall(c).lead].status \in RetryPending
          /\ leads'[AttemptOfCall(c).lead].next_retry_at # Null]_vars

\* C8: when the first call-ended event of attempt number max_attempts is
\* classified no-human-reached, the lead moves to whatsapp_outreach with
\* next_retry_at null.
C8_ExhaustedGoesAsync ==
  [][\A c \in CallIds, p \in LifecyclePayloads :
       (/\ FirstEnd(c)
        /\ CallEndedStep(c, p)
        /\ NO_HUMAN(p)
        /\ AttemptOfCall(c).attempt_no = leads[AttemptOfCall(c).lead].max_attempts
        /\ LastAttemptNo(AttemptOfCall(c).lead) = AttemptOfCall(c).attempt_no)
       => /\ leads'[AttemptOfCall(c).lead].status = "whatsapp_outreach"
          /\ leads'[AttemptOfCall(c).lead].next_retry_at = Null]_vars

\* C9: a call-ended event classified identity-mismatch or resolved-other puts
\* the lead into divergent or qualified without writing next_retry_at, and
\* from then on the retry cron places no call for that lead.
C9_TerminalOutcomeStopsRetries ==
  [][/\ \A c \in CallIds, p \in LifecyclePayloads :
         (Known(c) /\ CallEndedStep(c, p) /\ ~NO_HUMAN(p))
         => /\ leads'[AttemptOfCall(c).lead].status
                 = (IF DIVERGENT(p) THEN "divergent" ELSE "qualified")
            /\ leads'[AttemptOfCall(c).lead].next_retry_at
                 = leads[AttemptOfCall(c).lead].next_retry_at
     /\ \A l \in voiceClosed : ~SweepDispatches(l)]_vars

\* C10: the voicemail call-ended event of attempt 1 sets next_retry_at between
\* now+15 and now+25 minutes; a retry-cron pass that handles the lead once
\* that time has come places attempt 2 (unless the gateway throws), and the
\* pass leaves the lead in 'calling'.
VoicemailRetryDue(l) ==
  /\ leads[l].status = "no_answer"
  /\ leads[l].next_retry_at # Null
  /\ leads[l].next_retry_at <= now
  /\ Cardinality(AttemptsOf(l)) = 1
  /\ \A a \in AttemptsOf(l) :
       a.attempt_no = 1 /\ a.ended_at # Null /\ a.outcome = "voicemail_reached"

C10_VoicemailRetryDispatched ==
  [][/\ \A c \in CallIds :
         (FirstEnd(c) /\ CallEndedStep(c, Voicemail) /\ AttemptOfCall(c).attempt_no = 1
            /\ LastAttemptNo(AttemptOfCall(c).lead) = 1)
         => /\ leads'[AttemptOfCall(c).lead].next_retry_at >= now + 15
            /\ leads'[AttemptOfCall(c).lead].next_retry_at <= now + 25
     /\ (SweepHandlesLead /\ VoicemailRetryDue(SweepLead))
          => \/ SweepDispatches(SweepLead)
             \/ leads'[SweepLead].status = "retry_failed"
     /\ (sweepPc = "inserted" /\ sweepPc' # "inserted")
          => leads'[SweepLead].status = "calling"]_vars

\* C11: on the voicemail path the Retry Scheduler returns now + d with d
\* strictly greater than 15 and strictly less than 25 minutes, for every draw
\* of the random source.
VoicemailReturned == sched.pc = "returned" /\ sched.voicemail

C11_VoicemailOffsetStrict ==
  VoicemailReturned =>
    /\ sched.result - sched.at > 15
    /\ sched.result - sched.at < 25

\* C11 (amended): on the voicemail path the Retry Scheduler returns now + d
\* with d at least 15 and at most 25 minutes, for every draw of the random
\* source.
C11_VoicemailOffsetInclusive ==
  VoicemailReturned =>
    /\ sched.result - sched.at >= 15
    /\ sched.result - sched.at <= 25

C11_WitnessLowEnd == VoicemailReturned /\ sched.result - sched.at = 15

\* C12: for every invocation time and appointment table, the non-voicemail
\* path of the Retry Scheduler returns an instant that, in the lead's declared
\* timezone, falls on Monday-Saturday at or after 08:00 and before 20:00.
SlotReturned == sched.pc = "returned" /\ ~sched.voicemail

C12_SlotInLeadBusinessHours ==
  SlotReturned => isWithinBusinessHours(LeadLocal(sched.result, sched.tz))

\* C13: when the candidate slot is less than 2 hours before or after the
\* lead's nearest future appointment, the Retry Scheduler returns 08:00 of the
\* first day after the candidate's day that is not a Sunday; when the gap is 2
\* hours or more, the candidate is returned unchanged.
SchedCandidate == calculateNextSlot(sched.at)
SchedAppointment == appointmentTime(sched.appts, sched.at)
CloseToAppointment ==
  /\ SchedAppointment # Null
  /\ SchedAppointment - SchedCandidate < 120
  /\ SchedCandidate - SchedAppointment < 120

HookStep(q) == RetellWebhook(q.c, q.type, q.p, q.signed, q.fault)

\* C14: a correctly signed webhook event of any type whose call handle matches
\* no attempt is answered with success and leaves every lead and every attempt
\* unchanged.
C14_UnknownHandleAcked ==
  [][\A q \in SignedRequests :
       (~Known(q.c) /\ HookStep(q))
       => response' = "200" /\ UNCHANGED <<leads, attempts>>]_vars

\* C15: a webhook request whose signature fails verification changes no lead
\* and no attempt, whatever event type and call handle it carries.
C15_UnsignedChangesNothing ==
  [][\A q \in UnsignedRequests :
       HookStep(q) => UNCHANGED <<leads, attempts>>]_vars

\* an unsigned request was the last one handled, and the store holds an
\* in-flight attempt it could have ended
C15_WitnessUnsignedOnLiveCall ==
  /\ response = "none"
  /\ \E l \in LeadIds : InFlight(l) # {} /\ leads[l].status = "calling"

\* C16: every webhook request whose signature fails verification receives a
\* rejection answer (401); the handler never finishes it without answering.
C16_UnsignedRejected ==
  [][\A q \in UnsignedRequests : HookStep(q) => response' = "401"]_vars

\* C17: every authenticated webhook request is answered with success, also
\* when a store error or a missing payload field occurs while handling it.
C17_SignedAlwaysAcked ==
  [][\A q \in SignedRequests : HookStep(q) => response' = "200"]_vars

\* a submission of lead l whose dispatch succeeded happens in this step
SubmitDispatched(l) ==
  /\ SubmitLead(l, MaxCalls) \/ SubmitAgentLead(l, MaxCalls)
  /\ attempts' # attempts

\* C18: after a lead submission whose dispatch succeeds, the lead has exactly
\* one attempt, numbered 1 and carrying the returned call handle, and the
\* lead's status is 'calling'.
C18_SubmitLeavesLeadCalling ==
  [][\A l \in LeadIds :
       SubmitDispatched(l)
       => /\ \E a \in attempts' :
               /\ {b \in attempts' : b.lead = l} = {a}
               /\ a.attempt_no = 1
               /\ a.call_id = nextCallId
          /\ leads'[l].status = "calling"]_vars

Terminal == {"qualified", "divergent"}

\* C19: once a lead's status is qualified or divergent, no webhook event and
\* no retry-cron step changes its status or places a call for it.
C19_TerminalStatusesStay ==
  [][\A l \in LeadIds :
       leads[l].status \in Terminal
       => leads'[l].status = leads[l].status /\ ~SweepDispatches(l)]_vars

\* C20: when the text of a call-ended event matches both a no-human pattern
\* and an identity-mismatch pattern, the lead is handled as no-human-reached
\* (retry-pending or whatsapp_outreach) and is not set to divergent.
MatchesBoth(p) == NO_HUMAN(p) /\ DIVERGENT(p)

C20_NoHumanMatchesFirst ==
  [][\A q \in SignedRequests :
       (/\ Known(q.c)
        /\ q.type = "call_ended"
        /\ q.fault = "none"
        /\ MatchesBoth(q.p)
        /\ HookStep(q))
       => leads'[AttemptOfCall(q.c).lead].status \in RetryPending \cup {"whatsapp_outreach"}]_vars

\* a signed request that the route handles to its end
CleanRequests == {q \in SignedRequests : q.fault = "none"}

\* C21: a call-ended event that carries no recognizable signal (no outcome,
\* disconnect reason, status or summary text) is recorded as 'ended', sets the
\* lead to qualified and writes no retry time.
C21_NoSignalQualifies ==
  [][\A q \in CleanRequests :
       (/\ Known(q.c)
        /\ q.type = "call_ended"
        /\ outcomeRaw(q.p) = {}
        /\ HookStep(q))
       => LET l == AttemptOfCall(q.c).lead
          IN /\ leads'[l].status = "qualified"
             /\ leads'[l].next_retry_at = leads[l].next_retry_at
             /\ \E a \in attempts' : a.call_id = q.c /\ a.outcome = "ended"]_vars

\* an attempt ended by an event without signal, its lead qualified with no
\* retry time
C21_WitnessSilentEnd ==
  /\ response = "200"
  /\ \E a \in attempts :
       /\ a.outcome = "ended"
       /\ leads[a.lead].status = "qualified"
       /\ leads[a.lead].next_retry_at = Null

\* the requests of the event types that carry no outcome
PassiveTypes == {"call_started", "call_analyzed", "other"}
PassiveRequests == {q \in HookRequests : q.type \in PassiveTypes}

\* the attempts with the one column an event type may write blanked out
WithoutColumn(as, type) ==
  {IF type = "call_started" THEN [a EXCEPT !.started_at = Null]
   ELSE IF type = "call_analyzed" THEN [a EXCEPT !.analysis = FALSE]
   ELSE a : a \in as}

\* C30: a webhook event of type call_started, call_analyzed or of an unknown
\* type leaves every lead (status, next_retry_at, channel preference)
\* unchanged; call_started changes nothing but started_at and call_analyzed
\* nothing but the stored analysis, and only on the attempt of the event's call.
C30_PassiveEventsLeaveLeads ==
  [][\A q \in PassiveRequests :
       HookStep(q)
       => /\ leads' = leads
          /\ WithoutColumn(attempts', q.type) = WithoutColumn(attempts, q.type)
          /\ {a \in attempts' : a.call_id # q.c} = {a \in attempts : a.call_id # q.c}]_vars

\* an analysis stored on an attempt that is still in flight, its lead calling
C30_WitnessAnalyzedInFlight ==
  /\ response = "200"
  /\ \E a \in attempts :
       /\ a.analysis
       /\ a.ended_at = Null
       /\ leads[a.lead].status = "calling"

\* C22: on the non-voicemail path with no appointment conflict, the slot is
\* now + 2h when that instant lies within Monday-Saturday 08:00-20:00, and
\* otherwise the earliest Monday-Saturday 08:00 later than now + 2h (from a
\* Sunday, the Monday right after it).
C22_SlotIsNextOpening ==
  (SlotReturned /\ ~CloseToAppointment)
  => LET d == sched.at + 120
         openings == {x \in {StartOfDay(d) + k * 1440 + 480 : k \in 0..2} :
                        x > d /\ DayOf(x) # 0}
     IN IF isWithinBusinessHours(d)
        THEN sched.result = d
        ELSE /\ sched.result \in openings
             /\ \A x \in openings : sched.result <= x

\* the retry cron records the attempt of the call it placed in this step
SweepRecords ==
  /\ sweepPc = "dispatched"
  /\ sweepPc' = "inserted"

\* C23: an attempt dispatched by the retry cron starts at least 2 hours after
\* the start of every attempt the lead already has.
C23_SweepKeepsGap ==
  [][SweepRecords
     => \A a \in AttemptsOf(SweepLead) :
          \A b \in attempts' \ attempts :
            b.started_at - a.started_at >= MinGapHours * 60]_vars

\* C24: every call placed by the retry cron is for a lead that, at the moment
\* of dispatch, is in a retry-pending status with next_retry_at <= now, also
\* when a webhook changed the lead after the cron's selection query.
C24_SweepDialsOnlyDueLeads ==
  [][\A l \in LeadIds :
       SweepDispatches(l)
       => /\ leads[l].status \in RetryPending
          /\ leads[l].next_retry_at # Null
          /\ leads[l].next_retry_at <= now]_vars

\* the head of the cron's queue has used up its attempts
SweepLeadExhausted == LastAttemptNo(SweepLead) + 1 > leads[SweepLead].max_attempts

Escalated(ld) ==
  /\ ld.status = "whatsapp_outreach"
  /\ ld.preferred_channel = "whatsapp"
  /\ ld.next_retry_at = Null

\* C25 as stated: when the retry cron processes a due lead whose next attempt
\* number exceeds max_attempts, it places no call and sets the lead to
\* whatsapp_outreach with channel whatsapp and next_retry_at null.
C25_ExhaustedLeadEscalated ==
  [][(SweepHandlesLead /\ SweepLeadExhausted)
     => /\ ~SweepDispatches(SweepLead)
        /\ Escalated(leads'[SweepLead])]_vars

\* C25 amended: when the retry cron processes a due lead that has no attempt
\* in flight marked 'initiated' and whose next attempt number exceeds
\* max_attempts, it places no call and sets the lead to whatsapp_outreach with
\* channel whatsapp and next_retry_at null.
C25_ExhaustedIdleLeadEscalated ==
  [][(/\ SweepHandlesLead
      /\ SweepLeadExhausted
      /\ ~isLeadAlreadyBeingProcessed(SweepLead))
     => /\ ~SweepDispatches(SweepLead)
        /\ Escalated(leads'[SweepLead])]_vars

\* a lead escalated by the cron: all its attempts used, none of them ended by
\* a webhook event
C25_WitnessCronEscalation ==
  \E l \in LeadIds :
    /\ Escalated(leads[l])
    /\ LastAttemptNo(l) >= leads[l].max_attempts
    /\ \A a \in AttemptsOf(l) : a.ended_at = Null

\* the dispatch call of a submission of lead l throws in this step
SubmitThrows(l) ==
  /\ SubmitLead(l, MaxCalls) \/ SubmitAgentLead(l, MaxCalls)
  /\ attempts' = attempts
  /\ leads'[l].status # "assignment_failed"

\* makeOutboundCall throws inside the retry cron's loop body for lead l
SweepThrows(l) ==
  /\ sweepPc = "loop"
  /\ SweepLead = l
  /\ ~isLeadAlreadyBeingProcessed(l)
  /\ ~SweepLeadExhausted
  /\ canRetryNow(l)
  /\ SweepProcess(MaxCalls)
  /\ sweepPc' # "dispatched"

\* a status and retry time that the retry cron's selection query picks up
Retryable(ld) ==
  /\ ld.status \in RetryPending
  /\ ld.next_retry_at # Null
  /\ ld.assigned

\* C26: whenever a dispatch call throws, on first submission or inside the
\* retry cron, the lead is left in a status that a later cron pass selects
\* again once its retry time has elapsed.
C26_DispatchFailureRetryable ==
  [][\A l \in LeadIds :
       (SubmitThrows(l) \/ SweepThrows(l)) => Retryable(leads'[l])]_vars

\* the whatsapp cron's send for lead l resolves in this step
WhatsappPrompts(l) ==
  /\ waPc = "loop"
  /\ waPc' = "sent"
  /\ WhatsappLead = l

\* the whatsapp cron's send for lead l throws in this step
WhatsappFails(l) ==
  /\ waPc = "loop"
  /\ WhatsappLead = l
  /\ waQueue' = Tail(waQueue)

\* the whatsapp cron writes the status of lead l in this step
WhatsappTransitions(l) ==
  /\ waPc = "sent"
  /\ waPc' # "sent"
  /\ WhatsappLead = l

\* C28: the whatsapp cron moves a lead from whatsapp_outreach to
\* waiting_preference only after its prompt was sent; a failed send changes no
\* lead; and a lead in any other status is neither prompted nor transitioned
\* by the pass.
C28_PromptMovesOutreachOnly ==
  [][\A l \in LeadIds :
       /\ (leads[l].status = "whatsapp_outreach" /\ leads'[l].status = "waiting_preference")
            => WhatsappTransitions(l)
       /\ WhatsappFails(l) => leads' = leads
       /\ WhatsappPrompts(l) => leads[l].status = "whatsapp_outreach"
       /\ WhatsappTransitions(l)
            => /\ leads[l].status = "whatsapp_outreach"
               /\ leads'[l].status = "waiting_preference"]_vars

\* C27: in the retry cron and in the whatsapp cron, a failure while one lead
\* is processed does not end the pass: the loop goes on with the next
\* selected lead, and a pass ends only after the last lead it selected.
C27_FailureKeepsBatch ==
  [][/\ \A l \in BatchLeadIds :
          /\ (SweepThrows(l) /\ Len(sweepQueue) > 1)
               => sweepPc' = "loop" /\ sweepQueue' = Tail(sweepQueue)
          /\ (WhatsappFails(l) /\ Len(waQueue) > 1)
               => waPc' = "loop" /\ waQueue' = Tail(waQueue)
     /\ sweepPc # "idle"
          => /\ sweepQueue' \in {sweepQueue, Tail(sweepQueue)}
             /\ sweepPc' = "idle" => Len(sweepQueue) = 1
     /\ waPc # "idle"
          => /\ waQueue' \in {waQueue, Tail(waQueue)}
             /\ waPc' = "idle" => Len(waQueue) = 1]_vars

\* one lead's dispatch threw in this pass, and the cron has dialled another
\* lead after it
C27_WitnessDialAfterFailure ==
  \E a, b \in BatchLeadIds :
    /\ a # b
    /\ leads[a].status = "retry_failed"
    /\ leads[a].next_retry_at = now + RetryFailedBackoff
    /\ sweepPc = "dispatched"
    /\ SweepLead = b

\* C29: when an inbound whatsapp message from a lead in waiting_preference
\* asks for a call, the lead leaves waiting_preference for the voice flow: its
\* status becomes 'calling' and a new attempt is recorded for it.
C29_VoicePreferenceDials ==
  [][\A l \in BatchLeadIds : \A m \in Messages :
       (/\ leads[l].status = "waiting_preference"
        /\ VoiceRe(m)
        /\ TwilioInbound(l, m))
       => /\ leads'[l].status = "calling"
          /\ \E a \in attempts' \ attempts : a.lead = l]_vars

InWindow(t) ==
  /\ (t \div 1440) % 7 \in 1..6
  /\ t % 1440 >= 8 * 60
  /\ t % 1440 < 20 * 60

DispatchedCalls == 1..(nextCallId - 1)

\* C34: at every moment, each call the core has dispatched resolves to its
\* attempt, so that a call-ended event for it is never acknowledged as an
\* unknown handle and dropped, whatever the interleaving of the dispatch, the
\* insert of the attempt and the arrival of the event.
C34_DispatchedCallsResolve ==
  \A c \in DispatchedCalls : Known(c)

\* C33: whenever no retry-cron step is pending, a lead whose status is
\* 'calling' has an attempt with ended_at unset, under every interleaving of
\* the cron's dispatch, insert and status write with the call-ended event of
\* that attempt.
C33_CallingHasOpenAttempt ==
  sweepPc = "idle"
  => \A l \in LeadIds : leads[l].status = "calling" => InFlight(l) # {}

\* C37: a lead is prompted at most once: the write that follows a sent prompt
\* leaves it in waiting_preference, and no later step of the whatsapp cron,
\* the webhook or the retry cron puts a waiting_preference lead back into
\* whatsapp_outreach.
C37_PromptedOnce ==
  [][\A l \in LeadIds :
       /\ WhatsappTransitions(l) => leads'[l].status = "waiting_preference"
       /\ leads[l].status = "waiting_preference"
            => leads'[l].status # "whatsapp_outreach"]_vars

\* C38: a profile update leaves the stored specialty of the user unchanged,
\* whether or not its body carries a specialty value.
C38_ProfileKeepsSpecialty ==
  [][profile'.user.specialty = profile.user.specialty]_vars

\* the last instant of the modelled period: later retry times never elapse
ClockEnd == StartTime + MaxElapsed

\* the lead is selected by the retry pass as soon as the clock allows it
AwaitsClock(l) ==
  /\ now = ClockEnd
  /\ leads[l].status \in RetryPending
  /\ leads[l].assigned
  /\ leads[l].next_retry_at # Null

\* C31: under fair sweep ticks and a gateway that does not fail forever, a
\* retry-pending lead whose next_retry_at has elapsed is eventually in progress
\* again or moved to async outreach (or, at the end of the modelled period, is
\* still retry-pending and selectable by the next pass).
C31_DueLeadLeavesPending ==
  \A l \in LeadIds :
    (l \in DueLeads)
      ~> (leads[l].status \in {"calling", "whatsapp_outreach"} \/ AwaitsClock(l))

\* C32: under fair sweeps and delivered call_ended events every submitted lead
\* eventually is qualified, divergent or waiting for its channel preference
\* (or, at the end of the modelled period, is still retry-pending and
\* selectable by the next pass).
C32_SubmittedLeadSettles ==
  \A l \in LeadIds :
    (leads[l].status # "absent")
      ~> (leads[l].status \in {"qualified", "divergent", "waiting_preference"}
          \/ AwaitsClock(l))

====
